---- MODULE Spec2Model ----
(***************************************************************************)
(* DetectionThread of src/Object_Detection/video_detection_gui.py: the     *)
(* frame queue shared by the GUI thread (add_frame) and the worker (run),  *)
(* the worker's loop with its frame-skip and enable policy, the FPS        *)
(* tracker and the configuration setters.                                  *)
(*                                                                         *)
(* Frames are numbered 1, 2, ... in the order add_frame receives them;     *)
(* None is 0.  Time is counted in ticks, TicksPerSecond ticks to one       *)
(* second of time.time().  confidence_threshold is held in hundredths      *)
(* (0.5 is 50).                                                            *)
(***************************************************************************)
EXTENDS Integers, Sequences, FiniteSets

\* ---- bounds of the model
MaxFrames == 5
MaxControl == 2
MaxNone == 1
StopFrames == 3
SkipFrames == 3
PerfFrames == 3
ConfFrames == 3
MaxTime == 4
AppFrames == 2
SinkFrames == 2
MaxApp == 5
MaxObjects == 1
TicksPerSecond == 2

\* ---- program constants
QueueThreshold == 3
InitFrameSkip == 2
InitConfidence == 50

None == 0
ThresholdInputs == {-10, 20, 90, 150}
SkipInputs == {0, 3}
SkipArguments == {-1, 0, 1, 3}

\* select_video: the dialog is cancelled, the file opens (with a frame rate, or
\* reporting 0 frames per second), or it does not open
\* StatusPanel.__init__, lines 285-302: the widgets the status panel defines
StatusPanelWidgets == {"video_fps_label", "detection_fps_label", "detection_label",
                       "objects_label", "progress_bar"}

\* update_performance, line 564: the widget the slot sets the text of
PerformanceWidget == "fps_label"

SelectOutcomes == {"cancelled", "opened", "opened_fps0", "not_opened"}

VARIABLES
    frame_queue,            \* self.frame_queue
    queue_lock,             \* self.queue_lock: "free", "worker" or "gui"
    active,                 \* self.active
    detection_enabled,      \* self.detection_enabled
    confidence_threshold,   \* self.confidence_threshold
    frame_skip,             \* self.frame_skip
    frame_counter,          \* self.frame_counter
    fps_counter,            \* self.fps_counter
    last_fps_time,          \* self.last_fps_time
    detection_count,        \* self.detection_count
    pc,                     \* the worker's position in run()
    frame_to_process,       \* run()'s local
    results,                \* run()'s local: [count, conf] of the detector's result
    gui,                    \* the GUI thread: "idle", "add_frame" (in the with block), "wait" (in stop),
                            \* "close_wait" (in the stop() of closeEvent)
    now,                    \* time.time()
    submitted,              \* number of add_frame calls so far
    control_calls,          \* number of setter calls so far
    stop_called,            \* stop() has been called
    taken,                  \* frames the worker popped, in order
    first_take_at,          \* value of submitted at the worker's first pop (-1 before)
    invoked,                \* detector invocations begun: [frame, k, enabled_flag]
    applied,                \* thresholds read at line 54: [frame, conf, nwrites]
    detection_done,         \* detection_done emissions: [frame, count]
    performance_update,     \* performance_update emissions
    conf_writes,            \* arguments of set_confidence_threshold, in call order
    ever_disabled,          \* set_detection_enabled(False) was called at some time
    skip_set_after_take,    \* set_frame_skip was called after the worker's first pop
    invoked_at_disable,     \* Len(invoked) when set_detection_enabled(False) last returned
    passed_at_disable,      \* the frame that was past line 44 and before line 53 at that call, or None
    writes_at_take,         \* Len(conf_writes) when the worker last popped a frame
    returned,               \* frames whose detector invocation returned, in order
    at_stop,                \* the worker's position and the counts when stop() was called
    last_skip_arg,          \* <<argument of the last set_frame_skip call>>, <<>> before the first
    add_frame_raised,       \* number of add_frame calls that raised to their caller
    cap,                    \* app.cap: "none", "open", "open0" (opened, 0 fps), "bad" (not opened, or released)
    paused,                 \* app.paused
    timer_active,           \* app.timer is running
    app_calls,              \* number of calls of the playback handlers so far
    last_call,              \* the playback handler that ran last
    stopped_at,             \* submitted when stop_video last ran, -1 once a file was chosen since
    toggles_since_stop,     \* toggle_pause calls since that stop_video
    rejected_ticks,         \* some update_frame found no open video, or playback paused
    perf_delivered,         \* performance_update emissions update_performance has been run for
    perf_shown,             \* emissions whose FPS update_performance put on the status panel
    perf_slot_raised        \* runs of update_performance that raised

shared == <<frame_queue, queue_lock, active, detection_enabled,
            confidence_threshold, frame_skip>>
tracker == <<fps_counter, last_fps_time, detection_count>>
locals == <<pc, frame_to_process, results, frame_counter>>
env == <<gui, now, submitted, control_calls, stop_called, add_frame_raised>>
logs == <<taken, first_take_at, writes_at_take, invoked, returned, applied,
          detection_done, performance_update>>
ctl_logs == <<conf_writes, ever_disabled, skip_set_after_take, invoked_at_disable,
              passed_at_disable, last_skip_arg, at_stop>>
app == <<cap, paused, timer_active>>
app_logs == <<app_calls, last_call, stopped_at, toggles_since_stop, rejected_ticks>>
sink == <<perf_delivered, perf_shown, perf_slot_raised>>
vars == <<shared, tracker, locals, env, logs, ctl_logs, app, app_logs, sink>>

\* ---- helpers: one per piece of the code

\* add_frame, lines 85-86: drop the head when the queue is longer than 3
EvictNever(q) == q
EvictNewest(q) == IF Len(q) > QueueThreshold THEN SubSeq(q, 1, Len(q) - 1) ELSE q
EvictLate(q) == IF Len(q) > QueueThreshold + 1 THEN Tail(q) ELSE q
Evict(q) == IF Len(q) > QueueThreshold THEN Tail(q) ELSE q

\* add_frame, line 87: append at the tail
EnqueueFront(q, f) == <<f>> \o q
EnqueueIfRoom(q, f) == IF Len(q) >= QueueThreshold THEN q ELSE Append(q, f)
Enqueue(q, f) == Append(q, f)

\* run, line 42: pop(0) hands out the head
PoppedLast(q) == q[Len(q)]
Popped(q) == Head(q)

\* run, lines 40-42: leaving the with block releases queue_lock
WorkerKeepsLock == "worker"
WorkerRelease == "free"

\* run, line 65: detection_done.emit
EmitDropped(log, e) == log
Emit(log, e) == Append(log, e)

\* run, line 44: the frame is looked at only when detection is enabled
GateIgnoresFlag(frame, enabled) == frame # None
Gate(frame, enabled) == frame # None /\ enabled

\* run, line 48: every frame_skip-th counted frame is processed
ShouldProcessOffByOne(counter, skip) == counter % skip = 1 % skip
ShouldProcessEveryFrame(counter, skip) == TRUE
ShouldProcess(counter, skip) == counter % skip = 0

\* run, line 73: an emission is due one second after the last one
FpsDueAlways(current_time, last) == current_time - last >= 0
FpsDue(current_time, last) == current_time - last >= TicksPerSecond

\* run, lines 76 and 78: the counters restart after an emission
KeepCounter(c) == c
ResetCounter(c) == 0

\* set_confidence_threshold, line 93
StoreThresholdLost(old, threshold) == old
StoreThreshold(old, threshold) == threshold

\* set_frame_skip, line 96
StoreFrameSkipRaw(skip) == skip
StoreFrameSkip(skip) == IF skip > 1 THEN skip ELSE 1

\* ---- __init__, lines 20-34, and start() at line 402
Init ==
    /\ frame_queue = <<>>
    /\ queue_lock = "free"
    /\ active = TRUE
    /\ detection_enabled = TRUE
    /\ confidence_threshold = InitConfidence
    /\ frame_skip = InitFrameSkip
    /\ frame_counter = 0
    /\ fps_counter = 0
    /\ now = 0
    /\ last_fps_time = 0
    /\ detection_count = 0
    /\ pc = "while"
    /\ frame_to_process = None
    /\ results = [count |-> 0, conf |-> 0]
    /\ gui = "idle"
    /\ submitted = 0
    /\ control_calls = 0
    /\ stop_called = FALSE
    /\ taken = <<>>
    /\ first_take_at = -1
    /\ invoked = <<>>
    /\ applied = <<>>
    /\ detection_done = <<>>
    /\ performance_update = <<>>
    /\ conf_writes = <<>>
    /\ ever_disabled = FALSE
    /\ skip_set_after_take = FALSE
    /\ invoked_at_disable = 0
    /\ passed_at_disable = None
    /\ writes_at_take = 0
    /\ returned = <<>>
    /\ at_stop = [pc |-> "none", taken |-> 0, invoked |-> 0, submitted |-> 0]
    /\ last_skip_arg = <<>>
    /\ add_frame_raised = 0
    /\ cap = "none"
    /\ paused = FALSE
    /\ timer_active = FALSE
    /\ app_calls = 0
    /\ last_call = "none"
    /\ stopped_at = -1
    /\ toggles_since_stop = 0
    /\ rejected_ticks = FALSE
    /\ perf_delivered = 0
    /\ perf_shown = 0
    /\ perf_slot_raised = 0

\* ---- run(), lines 36-80

RunWhileIgnoresStop ==
    /\ pc = "while"
    /\ pc' = "with_lock"
    /\ frame_to_process' = None
    /\ UNCHANGED <<app, app_logs, sink>>
    /\ UNCHANGED <<shared, tracker, results, frame_counter, env, logs, ctl_logs>>

RunWhileDrains ==
    /\ pc = "while"
    /\ IF active \/ frame_queue # <<>>
         THEN pc' = "with_lock" /\ frame_to_process' = None
         ELSE pc' = "finished" /\ UNCHANGED frame_to_process
    /\ UNCHANGED <<app, app_logs, sink>>
    /\ UNCHANGED <<shared, tracker, results, frame_counter, env, logs, ctl_logs>>

\* line 37-38: while self.active / frame_to_process = None
RunWhile ==
    /\ pc = "while"
    /\ IF active
         THEN pc' = "with_lock" /\ frame_to_process' = None
         ELSE pc' = "finished" /\ UNCHANGED frame_to_process
    /\ UNCHANGED <<app, app_logs, sink>>
    /\ UNCHANGED <<shared, tracker, results, frame_counter, env, logs, ctl_logs>>

RunAcquireNoWait ==
    /\ pc = "with_lock"
    /\ queue_lock' = "worker"
    /\ pc' = "pop"
    /\ UNCHANGED <<app, app_logs, sink>>
    /\ UNCHANGED <<frame_queue, active, detection_enabled, confidence_threshold,
                   frame_skip, tracker, frame_to_process, results, frame_counter,
                   env, logs, ctl_logs>>

\* line 40: with self.queue_lock (acquire)
RunAcquire ==
    /\ pc = "with_lock"
    /\ queue_lock = "free"
    /\ queue_lock' = "worker"
    /\ pc' = "pop"
    /\ UNCHANGED <<app, app_logs, sink>>
    /\ UNCHANGED <<frame_queue, active, detection_enabled, confidence_threshold,
                   frame_skip, tracker, frame_to_process, results, frame_counter,
                   env, logs, ctl_logs>>

RunPopLeavesFrame ==
    /\ pc = "pop"
    /\ IF frame_queue # <<>>
         THEN /\ frame_to_process' = Popped(frame_queue)
              /\ frame_queue' = frame_queue
              /\ taken' = Append(taken, Popped(frame_queue))
              /\ first_take_at' = IF taken = <<>> THEN submitted ELSE first_take_at
              /\ writes_at_take' = Len(conf_writes)
         ELSE UNCHANGED <<frame_to_process, frame_queue, taken, first_take_at,
                          writes_at_take>>
    /\ queue_lock' = WorkerRelease
    /\ pc' = "if_enabled"
    /\ UNCHANGED <<app, app_logs, sink>>
    /\ UNCHANGED <<active, detection_enabled, confidence_threshold, frame_skip,
                   tracker, results, frame_counter, env, invoked, returned, applied,
                   detection_done, performance_update, ctl_logs>>

\* lines 41-42 and the release at the end of the with block
RunPop ==
    /\ pc = "pop"
    /\ IF frame_queue # <<>>
         THEN /\ frame_to_process' = Popped(frame_queue)
              /\ frame_queue' = Tail(frame_queue)
              /\ taken' = Append(taken, Popped(frame_queue))
              /\ first_take_at' = IF taken = <<>> THEN submitted ELSE first_take_at
              /\ writes_at_take' = Len(conf_writes)
         ELSE UNCHANGED <<frame_to_process, frame_queue, taken, first_take_at,
                          writes_at_take>>
    /\ queue_lock' = WorkerRelease
    /\ pc' = "if_enabled"
    /\ UNCHANGED <<app, app_logs, sink>>
    /\ UNCHANGED <<active, detection_enabled, confidence_threshold, frame_skip,
                   tracker, results, frame_counter, env, invoked, returned, applied,
                   detection_done, performance_update, ctl_logs>>

RunIfEnabledCountsEveryTake ==
    /\ pc = "if_enabled"
    /\ frame_counter' = IF frame_to_process # None THEN frame_counter + 1
                        ELSE frame_counter
    /\ pc' = IF Gate(frame_to_process, detection_enabled) THEN "if_skip" ELSE "msleep"
    /\ UNCHANGED <<app, app_logs, sink>>
    /\ UNCHANGED <<shared, tracker, frame_to_process, results, env, logs, ctl_logs>>

\* lines 44-45: the enable test and the count of the frame
RunIfEnabled ==
    /\ pc = "if_enabled"
    /\ IF Gate(frame_to_process, detection_enabled)
         THEN frame_counter' = frame_counter + 1 /\ pc' = "if_skip"
         ELSE UNCHANGED frame_counter /\ pc' = "msleep"
    /\ UNCHANGED <<app, app_logs, sink>>
    /\ UNCHANGED <<shared, tracker, frame_to_process, results, env, logs, ctl_logs>>

RunIfSkipNoSleep ==
    /\ pc = "if_skip"
    /\ pc' = IF ShouldProcess(frame_counter, frame_skip) THEN "model" ELSE "while"
    /\ UNCHANGED <<app, app_logs, sink>>
    /\ UNCHANGED <<shared, tracker, frame_to_process, results, frame_counter,
                   env, logs, ctl_logs>>

\* line 48: the frame-skip test
RunIfSkip ==
    /\ pc = "if_skip"
    /\ pc' = IF ShouldProcess(frame_counter, frame_skip) THEN "model" ELSE "msleep"
    /\ UNCHANGED <<app, app_logs, sink>>
    /\ UNCHANGED <<shared, tracker, frame_to_process, results, frame_counter,
                   env, logs, ctl_logs>>

\* lines 49-53: the detector is invoked on the frame
RunModelCall ==
    /\ pc = "model"
    /\ pc' = "in_model"
    /\ invoked' = Append(invoked, [frame |-> frame_to_process, k |-> Len(taken),
                                   enabled |-> detection_enabled])
    /\ UNCHANGED <<app, app_logs, sink>>
    /\ UNCHANGED <<shared, tracker, frame_to_process, results, frame_counter, env,
                   taken, first_take_at, writes_at_take, returned, applied,
                   detection_done, performance_update, ctl_logs>>

\* line 53: the detector returns a result with some number of objects
RunModelReturn(counts) ==
    /\ pc = "in_model"
    /\ \E n \in counts : results' = [count |-> n, conf |-> 0]
    /\ returned' = Append(returned, frame_to_process)
    /\ pc' = "conf"
    /\ UNCHANGED <<app, app_logs, sink>>
    /\ UNCHANGED <<shared, tracker, frame_to_process, frame_counter, env, taken,
                   first_take_at, writes_at_take, invoked, applied, detection_done,
                   performance_update, ctl_logs>>

\* line 53: the detector raises; run() has no handler, the thread ends
RunModelRaise ==
    /\ pc = "in_model"
    /\ pc' = "raised"
    /\ UNCHANGED <<app, app_logs, sink>>
    /\ UNCHANGED <<shared, tracker, frame_to_process, results, frame_counter, env,
                   logs, ctl_logs>>

\* line 54: results.conf = self.confidence_threshold
RunConf ==
    /\ pc = "conf"
    /\ results' = [results EXCEPT !.conf = confidence_threshold]
    /\ applied' = Append(applied, [frame |-> frame_to_process,
                                   conf |-> confidence_threshold,
                                   nwrites |-> Len(conf_writes),
                                   at_take |-> writes_at_take])
    /\ pc' = "emit"
    /\ UNCHANGED <<app, app_logs, sink>>
    /\ UNCHANGED <<shared, tracker, frame_to_process, frame_counter, env, taken,
                   first_take_at, writes_at_take, invoked, returned, detection_done,
                   performance_update, ctl_logs>>

\* lines 57-69: detection_done.emit and the two counters
RunEmit ==
    /\ pc = "emit"
    /\ detection_done' = Emit(detection_done,
                              [frame |-> frame_to_process, count |-> results.count])
    /\ fps_counter' = fps_counter + 1
    /\ detection_count' = detection_count + results.count
    /\ pc' = "fps"
    /\ UNCHANGED <<app, app_logs, sink>>
    /\ UNCHANGED <<shared, last_fps_time, frame_to_process, results, frame_counter,
                   env, taken, first_take_at, writes_at_take, invoked, returned, applied,
                   performance_update, ctl_logs>>

RunFpsKeepsTime ==
    /\ pc = "fps"
    /\ IF FpsDue(now, last_fps_time)
         THEN /\ performance_update' = Append(performance_update,
                    [fps_num |-> fps_counter, fps_den |-> now - last_fps_time,
                     count |-> detection_count, time |-> now,
                     ndone |-> Len(detection_done)])
              /\ fps_counter' = ResetCounter(fps_counter)
              /\ last_fps_time' = last_fps_time
              /\ detection_count' = ResetCounter(detection_count)
         ELSE UNCHANGED <<performance_update, tracker>>
    /\ pc' = "msleep"
    /\ UNCHANGED <<app, app_logs, sink>>
    /\ UNCHANGED <<shared, frame_to_process, results, frame_counter, env, taken,
                   first_take_at, writes_at_take, invoked, returned, applied,
                   detection_done, ctl_logs>>

\* lines 72-78: the FPS emission, once a second has passed
RunFps ==
    /\ pc = "fps"
    /\ IF FpsDue(now, last_fps_time)
         THEN /\ performance_update' = Append(performance_update,
                    [fps_num |-> fps_counter, fps_den |-> now - last_fps_time,
                     count |-> detection_count, time |-> now,
                     ndone |-> Len(detection_done)])
              /\ fps_counter' = ResetCounter(fps_counter)
              /\ last_fps_time' = now
              /\ detection_count' = ResetCounter(detection_count)
         ELSE UNCHANGED <<performance_update, tracker>>
    /\ pc' = "msleep"
    /\ UNCHANGED <<app, app_logs, sink>>
    /\ UNCHANGED <<shared, frame_to_process, results, frame_counter, env, taken,
                   first_take_at, writes_at_take, invoked, returned, applied,
                   detection_done, ctl_logs>>

\* line 80: self.msleep(5)
RunSleep ==
    /\ pc = "msleep"
    /\ pc' = "while"
    /\ UNCHANGED <<app, app_logs, sink>>
    /\ UNCHANGED <<shared, tracker, frame_to_process, results, frame_counter, env,
                   logs, ctl_logs>>

\* ---- the GUI thread's calls

\* add_frame, line 83: with self.queue_lock (acquire)
AddFrameAcquire(limit) ==
    /\ gui = "idle"
    /\ submitted < limit
    /\ queue_lock = "free"
    /\ queue_lock' = "gui"
    /\ gui' = "add_frame"
    /\ submitted' = submitted + 1
    /\ UNCHANGED <<app, app_logs, sink>>
    /\ UNCHANGED <<frame_queue, active, detection_enabled, confidence_threshold,
                   frame_skip, tracker, locals, now, control_calls, stop_called,
                   add_frame_raised, logs, ctl_logs>>

\* add_frame, lines 85-87 and the release
AddFrameBody ==
    /\ gui = "add_frame"
    /\ frame_queue' = Enqueue(Evict(frame_queue), submitted)
    /\ queue_lock' = "free"
    /\ gui' = "idle"
    /\ UNCHANGED <<app, app_logs, sink>>
    /\ UNCHANGED <<active, detection_enabled, confidence_threshold, frame_skip,
                   tracker, locals, now, submitted, control_calls, stop_called,
                   add_frame_raised, logs, ctl_logs>>

\* add_frame(None), line 83: with self.queue_lock (acquire)
AddFrameNoneAcquire ==
    /\ gui = "idle"
    /\ add_frame_raised < MaxNone
    /\ queue_lock = "free"
    /\ queue_lock' = "gui"
    /\ gui' = "add_none"
    /\ UNCHANGED <<app, app_logs, sink>>
    /\ UNCHANGED <<frame_queue, active, detection_enabled, confidence_threshold,
                   frame_skip, tracker, locals, now, submitted, control_calls,
                   stop_called, add_frame_raised, logs, ctl_logs>>

\* add_frame(None), lines 85-87: the eviction of lines 85-86 runs, then
\* frame.copy() raises AttributeError; the with block releases the lock and the
\* exception reaches the caller
AddFrameNoneBody ==
    /\ gui = "add_none"
    /\ frame_queue' = Evict(frame_queue)
    /\ add_frame_raised' = add_frame_raised + 1
    /\ queue_lock' = "free"
    /\ gui' = "idle"
    /\ UNCHANGED <<app, app_logs, sink>>
    /\ UNCHANGED <<active, detection_enabled, confidence_threshold, frame_skip,
                   tracker, locals, now, submitted, control_calls, stop_called,
                   logs, ctl_logs>>

\* set_detection_enabled, lines 89-90
SetDetectionEnabled(enabled) ==
    /\ gui = "idle"
    /\ control_calls < MaxControl
    /\ control_calls' = control_calls + 1
    /\ detection_enabled' = enabled
    /\ ever_disabled' = (ever_disabled \/ ~enabled)
    /\ invoked_at_disable' = IF enabled THEN invoked_at_disable ELSE Len(invoked)
    /\ passed_at_disable' = IF enabled THEN passed_at_disable
                            ELSE IF pc \in {"if_skip", "model"} THEN frame_to_process
                            ELSE None
    /\ UNCHANGED <<app, app_logs, sink>>
    /\ UNCHANGED <<frame_queue, queue_lock, active, confidence_threshold, frame_skip,
                   tracker, locals, gui, now, submitted, stop_called,
                   add_frame_raised, logs, conf_writes, skip_set_after_take,
                   last_skip_arg, at_stop>>

\* set_confidence_threshold, lines 92-93
SetConfidenceThreshold(threshold) ==
    /\ gui = "idle"
    /\ control_calls < MaxControl
    /\ control_calls' = control_calls + 1
    /\ confidence_threshold' = StoreThreshold(confidence_threshold, threshold)
    /\ conf_writes' = Append(conf_writes, threshold)
    /\ UNCHANGED <<app, app_logs, sink>>
    /\ UNCHANGED <<frame_queue, queue_lock, active, detection_enabled, frame_skip,
                   tracker, locals, gui, now, submitted, stop_called,
                   add_frame_raised, logs, ever_disabled, skip_set_after_take,
                   invoked_at_disable, passed_at_disable, last_skip_arg, at_stop>>

\* set_frame_skip, lines 95-96
SetFrameSkip(skip) ==
    /\ gui = "idle"
    /\ control_calls < MaxControl
    /\ control_calls' = control_calls + 1
    /\ frame_skip' = StoreFrameSkip(skip)
    /\ skip_set_after_take' = (skip_set_after_take \/ taken # <<>>)
    /\ last_skip_arg' = <<skip>>
    /\ UNCHANGED <<app, app_logs, sink>>
    /\ UNCHANGED <<frame_queue, queue_lock, active, detection_enabled,
                   confidence_threshold, tracker, locals, gui, now, submitted,
                   stop_called, add_frame_raised, logs, conf_writes, ever_disabled,
                   invoked_at_disable, passed_at_disable, at_stop>>

\* stop, line 99, and the start of wait() at line 100
Stop ==
    /\ gui = "idle"
    /\ ~stop_called
    /\ stop_called' = TRUE
    /\ active' = FALSE
    /\ gui' = "wait"
    /\ at_stop' = [pc |-> pc, taken |-> Len(taken), invoked |-> Len(invoked),
                   submitted |-> submitted]
    /\ UNCHANGED <<app, app_logs, sink>>
    /\ UNCHANGED <<frame_queue, queue_lock, detection_enabled, confidence_threshold,
                   frame_skip, tracker, locals, now, submitted, control_calls,
                   add_frame_raised, logs, conf_writes, ever_disabled,
                   skip_set_after_take, invoked_at_disable, passed_at_disable,
                   last_skip_arg>>

\* stop, line 100: wait() returns once run() has ended
StopReturn ==
    /\ gui = "wait"
    /\ pc \in {"finished", "raised"}
    /\ gui' = "idle"
    /\ UNCHANGED <<app, app_logs, sink>>
    /\ UNCHANGED <<shared, tracker, locals, now, submitted, control_calls,
                   stop_called, add_frame_raised, logs, ctl_logs>>

\* time.time() advances
Tick ==
    /\ now < MaxTime
    /\ now' = now + 1
    /\ UNCHANGED <<app, app_logs, sink>>
    /\ UNCHANGED <<shared, tracker, locals, gui, submitted, control_calls,
                   stop_called, add_frame_raised, logs, ctl_logs>>

Worker(counts) ==
    \/ RunWhile
    \/ RunAcquire
    \/ RunPop
    \/ RunIfEnabled
    \/ RunIfSkip
    \/ RunModelCall
    \/ RunModelReturn(counts)
    \/ RunModelRaise
    \/ RunConf
    \/ RunEmit
    \/ RunFps
    \/ RunSleep

\* the queue, the worker's policy and the control surface; the clock stands still
Next ==
    \/ Worker({0})
    \/ AddFrameAcquire(MaxFrames)
    \/ AddFrameBody
    \/ \E enabled \in BOOLEAN : SetDetectionEnabled(enabled)
    \/ \E skip \in SkipInputs : SetFrameSkip(skip)

Spec == Init /\ [][Next]_vars

\* the confidence threshold: its setter against the worker's read
NextConf ==
    \/ Worker({0})
    \/ AddFrameAcquire(ConfFrames)
    \/ AddFrameBody
    \/ \E threshold \in ThresholdInputs : SetConfidenceThreshold(threshold)

SpecConf == Init /\ [][NextConf]_vars

\* add_frame called with None among the frames
NextNone ==
    \/ Worker({0})
    \/ AddFrameAcquire(MaxFrames)
    \/ AddFrameBody
    \/ AddFrameNoneAcquire
    \/ AddFrameNoneBody

SpecNone == Init /\ [][NextNone]_vars

\* stop(): the worker thread keeps being scheduled, the GUI thread leaves its
\* with block, and wait() returns once the thread has ended
NextStop ==
    \/ Worker({0})
    \/ AddFrameAcquire(StopFrames)
    \/ AddFrameBody
    \/ Stop
    \/ StopReturn

SpecStop ==
    /\ Init
    /\ [][NextStop]_vars
    /\ WF_vars(Worker({0}))
    /\ WF_vars(AddFrameBody)
    /\ WF_vars(StopReturn)

\* set_frame_skip with arguments below 1 among the others
NextSkip ==
    \/ Worker({0})
    \/ AddFrameAcquire(SkipFrames)
    \/ AddFrameBody
    \/ \E skip \in SkipArguments : SetFrameSkip(skip)

SpecSkip == Init /\ [][NextSkip]_vars

\* the FPS tracker: the clock runs and the detector reports objects
NextPerf ==
    \/ Worker(0..MaxObjects)
    \/ AddFrameAcquire(PerfFrames)
    \/ AddFrameBody
    \/ SetFrameSkip(1)
    \/ Tick

SpecPerf == Init /\ [][NextPerf]_vars

\* ---- ObjectDetectionApp: the playback handlers, lines 437-522

\* cap and cap.isOpened()
IsOpened(c) == c \in {"open", "open0"}

DetectionState == <<shared, tracker, locals, env, logs, ctl_logs>>

\* select_video, lines 437-463: for a file reporting 0 frames per second the
\* division of line 459 raises, after cap was assigned and before paused is
\* cleared
SelectVideo(outcome) ==
    /\ gui = "idle"
    /\ app_calls < MaxApp
    /\ app_calls' = app_calls + 1
    /\ last_call' = "select_video"
    /\ cap' = CASE outcome = "cancelled" -> cap
                [] outcome = "opened" -> "open"
                [] outcome = "opened_fps0" -> "open0"
                [] outcome = "not_opened" -> "bad"
    /\ timer_active' = IF outcome = "opened" THEN TRUE ELSE timer_active
    /\ paused' = IF outcome = "opened" THEN FALSE ELSE paused
    /\ stopped_at' = IF outcome = "cancelled" THEN stopped_at ELSE -1
    /\ toggles_since_stop' = IF outcome = "cancelled" THEN toggles_since_stop ELSE 0
    /\ UNCHANGED <<DetectionState, rejected_ticks, sink>>

\* toggle_pause, lines 465-473
TogglePause ==
    /\ gui = "idle"
    /\ app_calls < MaxApp
    /\ app_calls' = app_calls + 1
    /\ last_call' = "toggle_pause"
    /\ paused' = ~paused
    /\ timer_active' = IF ~paused THEN FALSE
                       ELSE IF IsOpened(cap) THEN TRUE
                       ELSE timer_active
    /\ toggles_since_stop' = IF stopped_at # -1 THEN toggles_since_stop + 1
                             ELSE toggles_since_stop
    /\ UNCHANGED <<DetectionState, cap, stopped_at, rejected_ticks, sink>>

StopVideoKeepsCapture ==
    /\ gui = "idle"
    /\ app_calls < MaxApp
    /\ app_calls' = app_calls + 1
    /\ last_call' = "stop_video"
    /\ cap' = cap
    /\ timer_active' = FALSE
    /\ paused' = FALSE
    /\ stopped_at' = submitted
    /\ toggles_since_stop' = 0
    /\ UNCHANGED <<DetectionState, rejected_ticks, sink>>

\* stop_video, lines 475-483
StopVideo ==
    /\ gui = "idle"
    /\ app_calls < MaxApp
    /\ app_calls' = app_calls + 1
    /\ last_call' = "stop_video"
    /\ cap' = "none"
    /\ timer_active' = FALSE
    /\ paused' = FALSE
    /\ stopped_at' = submitted
    /\ toggles_since_stop' = 0
    /\ UNCHANGED <<DetectionState, rejected_ticks, sink>>

\* set_speed, lines 485-490: the slider's values are 10..200, so the division of
\* line 489 raises only for a file reporting 0 frames per second
SetSpeed ==
    /\ gui = "idle"
    /\ app_calls < MaxApp
    /\ app_calls' = app_calls + 1
    /\ last_call' = "set_speed"
    /\ timer_active' = IF IsOpened(cap) /\ ~paused /\ cap # "open0" THEN TRUE
                       ELSE timer_active
    /\ UNCHANGED <<DetectionState, cap, paused, stopped_at, toggles_since_stop,
                   rejected_ticks, sink>>

\* update_frame, lines 507-522, on a timeout of the timer: a frame that was read
\* goes to add_frame; at the end of the file the capture is rewound
UpdateFrame ==
    /\ gui = "idle"
    /\ timer_active
    /\ IF IsOpened(cap) /\ ~paused
         THEN \E ret \in BOOLEAN :
                 IF ret THEN AddFrameAcquire(AppFrames)
                 ELSE UNCHANGED vars
         ELSE /\ rejected_ticks' = TRUE
              /\ UNCHANGED <<DetectionState, app, app_calls, last_call, stopped_at,
                             toggles_since_stop, sink>>

\* closeEvent, lines 568-569: detection_thread.stop() sets active to False and
\* waits for run() to end
CloseEvent ==
    /\ gui = "idle"
    /\ ~stop_called
    /\ stop_called' = TRUE
    /\ active' = FALSE
    /\ gui' = "close_wait"
    /\ at_stop' = [pc |-> pc, taken |-> Len(taken), invoked |-> Len(invoked),
                   submitted |-> submitted]
    /\ last_call' = "closeEvent"
    /\ UNCHANGED <<frame_queue, queue_lock, detection_enabled, confidence_threshold,
                   frame_skip, tracker, locals, now, submitted, control_calls,
                   add_frame_raised, logs, conf_writes, ever_disabled,
                   skip_set_after_take, invoked_at_disable, passed_at_disable,
                   last_skip_arg, app, app_calls, stopped_at, toggles_since_stop,
                   rejected_ticks, sink>>

\* closeEvent, lines 570-572, once wait() has returned: the capture is released
\* but stays assigned, and the timer is left as it is
CloseEventRelease ==
    /\ gui = "close_wait"
    /\ pc \in {"finished", "raised"}
    /\ cap' = IF cap = "none" THEN "none" ELSE "bad"
    /\ gui' = "idle"
    /\ UNCHANGED <<shared, tracker, locals, now, submitted, control_calls,
                   stop_called, add_frame_raised, logs, ctl_logs, paused,
                   timer_active, app_logs, sink>>

\* the video player: the playback handlers and the timer feed add_frame, the
\* worker takes the frames, and the window is closed
NextApp ==
    \/ Worker({0})
    \/ \E outcome \in SelectOutcomes : SelectVideo(outcome)
    \/ TogglePause
    \/ StopVideo
    \/ SetSpeed
    \/ UpdateFrame
    \/ AddFrameBody
    \/ CloseEvent
    \/ CloseEventRelease

SpecApp == Init /\ [][NextApp]_vars

\* ---- ObjectDetectionApp: the slot of performance_update, lines 401 and 562-564

\* update_performance runs in the GUI thread for the next emission not yet
\* delivered; looking up a widget StatusPanel does not define raises
\* AttributeError and no text is set
UpdatePerformance ==
    /\ gui = "idle"
    /\ perf_delivered < Len(performance_update)
    /\ perf_delivered' = perf_delivered + 1
    /\ IF PerformanceWidget \in StatusPanelWidgets
         THEN perf_shown' = perf_shown + 1 /\ UNCHANGED perf_slot_raised
         ELSE perf_slot_raised' = perf_slot_raised + 1 /\ UNCHANGED perf_shown
    /\ UNCHANGED <<DetectionState, app, app_logs>>

\* the FPS tracker and the result sink's slot for its samples
NextSink ==
    \/ Worker(0..MaxObjects)
    \/ AddFrameAcquire(SinkFrames)
    \/ AddFrameBody
    \/ Tick
    \/ UpdatePerformance

SpecSink == Init /\ [][NextSink]_vars

\* ---- what the claims speak of

\* the frames of a log, in order
Frames(log) == [i \in 1..Len(log) |-> log[i].frame]

\* the worker is between two frames: whatever it popped last is dealt with
BetweenFrames == pc \in {"msleep", "while", "with_lock", "pop"}

\* the k-th popped frame has been through the tests of lines 44 and 48
Decided(k) == k < Len(taken) \/ pc \notin {"if_enabled", "if_skip", "model"}

\* the detector was invoked on the k-th popped frame
InvokedAt(k) == \E i \in 1..Len(invoked) : invoked[i].k = k /\ invoked[i].frame = taken[k]

\* F1..F5 were all submitted before the worker's first pop, detection was never
\* disabled, frame_skip has been 2 since that pop, and the queue is drained
FiveFramesDrained ==
    /\ submitted = 5
    /\ first_take_at = 5
    /\ ~ever_disabled
    /\ frame_skip = InitFrameSkip
    /\ ~skip_set_after_take
    /\ frame_queue = <<>>
    /\ gui # "add_frame"
    /\ BetweenFrames

RECURSIVE SumCounts(_, _, _)
SumCounts(log, from, to) ==
    IF from > to THEN 0 ELSE log[to].count + SumCounts(log, from, to - 1)

\* the emission before the i-th performance_update; before the first, construction
PrevEmission(i) ==
    IF i = 1 THEN [time |-> 0, ndone |-> 0]
    ELSE [time |-> performance_update[i - 1].time,
          ndone |-> performance_update[i - 1].ndone]

\* ---- the claims

\* C1 as stated: the length of frame_queue is at most 3 in every reachable state.
C1_QueueAtMostThree == Len(frame_queue) <= QueueThreshold

\* C1 as amended: the length of frame_queue is at most 4 in every reachable
\* state, add_frame evicting only when the length it finds exceeds 3.
C1_QueueAtMostFour == Len(frame_queue) <= QueueThreshold + 1

C1_Witness ==
    /\ Len(frame_queue) = QueueThreshold + 1
    /\ submitted > Len(taken) + Len(frame_queue)
    /\ gui = "idle"

\* C2 as stated: an add_frame that finds 3 frames in the queue evicts the oldest,
\* and leaves exactly the 3 most recently submitted frames, in order.
C2_KeepsThreeNewest ==
    [][(gui = "add_frame" /\ gui' = "idle" /\ Len(frame_queue) = QueueThreshold)
         => frame_queue' = <<submitted - 2, submitted - 1, submitted>>]_vars

\* C2 as amended: an add_frame that finds 4 frames in the queue evicts the oldest
\* and leaves exactly the 4 most recently submitted frames, in order; one that
\* finds 3 or fewer evicts nothing and appends.
C2_KeepsFourNewest ==
    [][(gui = "add_frame" /\ gui' = "idle")
         => IF Len(frame_queue) = QueueThreshold + 1
              THEN /\ frame_queue' = Append(Tail(frame_queue), submitted)
                   /\ frame_queue' = [i \in 1..(QueueThreshold + 1) |->
                                          submitted - (QueueThreshold + 1) + i]
              ELSE /\ Len(frame_queue) <= QueueThreshold
                   /\ frame_queue' = Append(frame_queue, submitted)]_vars

C2_Witness ==
    /\ submitted = 5
    /\ taken = <<>>
    /\ frame_queue = <<2, 3, 4, 5>>

\* C3 as stated: F1..F5 submitted before the worker's first pop, frame_skip 2,
\* detection enabled: once the queue is drained there has been exactly one
\* detector invocation, on F4, and one detection_done.
C3_OneDetectionOnF4 ==
    FiveFramesDrained => /\ Frames(invoked) = <<4>>
                         /\ Frames(detection_done) = <<4>>

\* C3 as amended: in that scenario the queue retains F2..F5, and once it is
\* drained there have been exactly two detector invocations, on F3 and F5, each
\* with its detection_done; F2 and F4 were discarded by the skip policy.
C3_TwoDetectionsOnF3F5 ==
    /\ (submitted = 5 /\ gui = "idle" /\ taken = <<>>) => frame_queue = <<2, 3, 4, 5>>
    /\ FiveFramesDrained => /\ taken = <<2, 3, 4, 5>>
                            /\ Frames(invoked) = <<3, 5>>
                            /\ Frames(detection_done) = <<3, 5>>

C3_Witness == FiveFramesDrained /\ Len(detection_done) = 2

\* C4: with detection never disabled and frame_skip unchanged since the worker's
\* first pop, the k-th popped frame goes to the detector iff k mod frame_skip = 0,
\* and detection_done is emitted only for such frames.
C4_EveryNthFrameDetected ==
    (~ever_disabled /\ ~skip_set_after_take) =>
        /\ \A k \in 1..Len(taken) :
              Decided(k) => (InvokedAt(k) <=> k % frame_skip = 0)
        /\ \A i \in 1..Len(detection_done) :
              \E k \in 1..Len(taken) : /\ taken[k] = detection_done[i].frame
                                       /\ k % frame_skip = 0

C4_Witness ==
    /\ ~ever_disabled
    /\ ~skip_set_after_take
    /\ frame_skip = 3
    /\ Len(taken) = 4
    /\ BetweenFrames
    /\ Len(invoked) = 1
    /\ invoked[1].k = 3

\* C5 as stated: while detection_enabled is False after set_detection_enabled(False)
\* returned, the worker begins no detector invocation.
C5_NoInvocationWhileDisabled ==
    ~detection_enabled => Len(invoked) = invoked_at_disable

\* C5 as amended: while detection_enabled is False after set_detection_enabled(False)
\* returned, the worker begins at most one detector invocation, and only on the
\* frame that had already passed the test of line 44 when the flag was cleared.
C5_OnlyThePassedFrameWhileDisabled ==
    ~detection_enabled =>
        /\ Len(invoked) <= invoked_at_disable + 1
        /\ \A i \in (invoked_at_disable + 1)..Len(invoked) :
              passed_at_disable # None /\ invoked[i].frame = passed_at_disable

C5_Witness ==
    /\ ~detection_enabled
    /\ Len(invoked) = invoked_at_disable + 1
    /\ frame_queue # <<>>
    /\ BetweenFrames

\* C6: a detector invocation that raises leaves the worker in its running loop.
C6_WorkerSurvivesDetectorFailure == pc # "raised"

\* C7: detection_done emissions come in the submission order of their frames.
C7_EmissionsInSubmissionOrder ==
    \A i, j \in 1..Len(detection_done) :
        i < j => detection_done[i].frame < detection_done[j].frame

C7_Witness ==
    /\ Len(detection_done) >= 2
    /\ submitted > Len(taken) + Len(frame_queue)

\* C8: between two consecutive performance_update emissions, and between
\* construction and the first, at least one second has passed.
C8_AtMostOncePerSecond ==
    \A i \in 1..Len(performance_update) :
        performance_update[i].time - PrevEmission(i).time >= TicksPerSecond

C8_Witness ==
    /\ Len(performance_update) >= 2
    /\ performance_update[2].time - performance_update[1].time >= TicksPerSecond

\* C9: each performance_update carries fps = (frames processed since the previous
\* emission) / (time since the previous emission), and the sum of the object
\* counts of those frames.
C9_FpsAndCountOfTheWindow ==
    \A i \in 1..Len(performance_update) :
        LET e == performance_update[i]
            p == PrevEmission(i)
        IN /\ e.fps_den > 0
           /\ e.time - p.time > 0
           /\ e.fps_num * (e.time - p.time) = (e.ndone - p.ndone) * e.fps_den
           /\ e.count = SumCounts(detection_done, p.ndone + 1, e.ndone)

C9_Witness ==
    /\ Len(performance_update) >= 2
    /\ performance_update[1].fps_num = 2
    /\ performance_update[2].fps_num = 1
    /\ performance_update[2].count = 1

\* C10: the threshold the worker reads for a frame is the argument of the last
\* completed set_confidence_threshold call (the initial 0.5 when there was none):
\* after the writes 0.9 then 0.2, a frame popped afterwards gets 0.2.
C10_LastWriterWins ==
    \A i \in 1..Len(applied) :
        LET a == applied[i]
        IN /\ a.conf = IF a.nwrites = 0 THEN InitConfidence ELSE conf_writes[a.nwrites]
           /\ (conf_writes = <<90, 20>> /\ a.at_take = 2) => a.conf = 20

C10_Witness ==
    /\ conf_writes = <<90, 20>>
    /\ Len(applied) = 1
    /\ applied[1].at_take = 2
    /\ applied[1].conf = 20
    /\ first_take_at >= 1

\* the worker thread has ended
Terminated == pc \in {"finished", "raised"}

\* C11: the worker's take step hands out the head of a non-empty queue and
\* removes it; on an empty queue it hands out None, leaves the queue as it is,
\* and the worker goes on to its sleep and the next iteration.
C11_TakeHeadOrNothing ==
    [][/\ (pc = "pop" /\ pc' # pc) =>
             /\ pc' = "if_enabled"
             /\ IF frame_queue # <<>>
                  THEN /\ frame_to_process' = Head(frame_queue)
                       /\ frame_queue' = Tail(frame_queue)
                  ELSE /\ frame_to_process' = None
                       /\ frame_queue' = frame_queue
       /\ (pc = "if_enabled" /\ frame_to_process = None /\ pc' # pc) => pc' = "msleep"
       /\ (pc = "msleep" /\ pc' # pc) => pc' = "while"]_vars

C11_Witness ==
    /\ pc = "if_enabled"
    /\ frame_to_process = None
    /\ frame_queue = <<>>
    /\ Len(taken) >= 2

\* C12: confidence_threshold lies in [0,1] in every reachable state.
C12_ThresholdInUnitInterval ==
    0 <= confidence_threshold /\ confidence_threshold <= 100

\* C13: frame_skip is an integer >= 1 in every reachable state: 2 until the first
\* set_frame_skip, then max(1, s) for the last argument s, so the modulus of
\* line 48 is never taken by zero.
C13_FrameSkipAtLeastOne ==
    /\ frame_skip \in Nat
    /\ frame_skip >= 1
    /\ last_skip_arg = <<>> => frame_skip = InitFrameSkip
    /\ last_skip_arg # <<>> =>
          /\ last_skip_arg[1] >= 1 => frame_skip = last_skip_arg[1]
          /\ last_skip_arg[1] < 1 => frame_skip = 1

C13_Witness ==
    /\ last_skip_arg = <<-1>>
    /\ frame_skip = 1
    /\ Len(detection_done) = 2

\* C14: add_frame(None) returns without raising and leaves frame_queue exactly
\* as it was.
C14_NoneFrameRejected ==
    [][(gui = "add_none" /\ gui' = "idle")
         => /\ frame_queue' = frame_queue
            /\ add_frame_raised' = add_frame_raised]_vars

\* C15: the worker holds queue_lock only at its pop step, never while it invokes
\* the detector, emits or sleeps, so add_frame waits for that one step at most.
C15_LockOnlyAroundPop ==
    /\ queue_lock = "worker" <=> pc = "pop"
    /\ pc \in {"model", "in_model", "conf", "emit", "fps", "msleep"}
          => queue_lock \in {"free", "gui"}

C15_Witness ==
    /\ pc = "in_model"
    /\ gui = "add_frame"
    /\ queue_lock = "gui"

\* C16: every write of detection_enabled, confidence_threshold and frame_skip by
\* a setter, and every read of them by the worker, happens with a lock held by
\* the thread that does it.
C16_ConfigAccessUnderLock ==
    [][/\ (\/ detection_enabled' # detection_enabled
           \/ confidence_threshold' # confidence_threshold
           \/ frame_skip' # frame_skip) => queue_lock = "gui"
       /\ (/\ pc \in {"if_enabled", "if_skip", "conf"}
           /\ frame_to_process # None
           /\ pc' # pc) => queue_lock = "worker"]_vars

\* C17: after stop() has set active to False the worker thread ends and wait()
\* returns; a detector call in flight runs to its return (or its raise), and the
\* worker never needs a lock the caller of stop() holds.
C17_StopEndsTheWorker ==
    /\ stop_called ~> (Terminated /\ gui # "wait")
    /\ [][(pc = "in_model" /\ pc' # pc) => pc' \in {"conf", "raised"}]_vars
    /\ [](gui = "wait" => queue_lock # "gui")

C17_Witness ==
    /\ at_stop.pc = "in_model"
    /\ pc = "finished"
    /\ gui = "idle"
    /\ Len(invoked) = at_stop.invoked
    /\ Len(detection_done) = Len(invoked)

\* C18: the loop test that finds active False ends the worker whatever is in the
\* queue, and an ended worker takes no frame, invokes no detector and emits
\* nothing, also when add_frame is called afterwards.
C18_StoppedIsTerminal ==
    [][/\ Terminated =>
             /\ pc' = pc
             /\ taken' = taken
             /\ invoked' = invoked
             /\ detection_done' = detection_done
             /\ performance_update' = performance_update
       /\ (pc = "while" /\ ~active /\ pc' # pc) => pc' = "finished"]_vars

C18_Witness ==
    /\ pc = "finished"
    /\ gui = "idle"
    /\ at_stop.submitted >= 1
    /\ submitted > at_stop.submitted
    /\ taken = <<>>
    /\ Len(frame_queue) = submitted

\* C19: the detection_done emissions are exactly the frames whose detector
\* invocation returned, one each and in that order, the result the worker holds
\* between the return (line 53) and the emit (line 65) being the only one not
\* yet emitted; frames evicted, skipped or popped while disabled get none.
C19_OneEmissionPerReturnedInvocation ==
    /\ IF pc \in {"conf", "emit"}
         THEN returned = Append(Frames(detection_done), frame_to_process)
         ELSE returned = Frames(detection_done)
    /\ \A i \in 1..Len(detection_done) :
          \E j \in 1..Len(invoked) : invoked[j].frame = detection_done[i].frame

C19_Witness ==
    /\ Len(detection_done) = 2
    /\ Len(taken) = 4
    /\ BetweenFrames
    /\ submitted > Len(taken) + Len(frame_queue)

\* C20 as stated: the worker removes a frame from frame_queue only when
\* detection_enabled is true.
C20_TakesOnlyWhenEnabled ==
    [][(pc = "pop" /\ pc' # pc /\ Len(taken') > Len(taken)) => detection_enabled]_vars

\* C20 as amended: the worker removes the head of a non-empty frame_queue at every
\* iteration, whatever detection_enabled is; a frame whose test at line 44 finds
\* detection disabled is discarded: not counted, never passed to the detector and
\* not put back.
C20_DisabledFramesAreDiscarded ==
    [][/\ (pc = "pop" /\ pc' # pc /\ frame_queue # <<>>) =>
             /\ frame_queue' = Tail(frame_queue)
             /\ taken' = Append(taken, Head(frame_queue))
       /\ (pc = "if_enabled" /\ pc' # pc /\ frame_to_process # None
             /\ ~detection_enabled) =>
             /\ pc' = "msleep"
             /\ frame_counter' = frame_counter
             /\ invoked' = invoked
             /\ frame_queue' = frame_queue]_vars

C20_Witness ==
    /\ ~detection_enabled
    /\ pc = "msleep"
    /\ frame_to_process # None
    /\ Len(taken) > frame_counter
    /\ Len(invoked) = invoked_at_disable

\* C21 as stated: between loop iterations frame_counter equals the number of
\* frames the worker has taken from the queue, whatever the enable/disable calls.
C21_CounterCountsEveryTake == BetweenFrames => frame_counter = Len(taken)

\* C21 as amended: frame_counter is incremented once for every taken frame whose
\* test at line 44 finds detection enabled, and by nothing else; a frame taken
\* while detection is disabled is not counted.  So frame_counter never exceeds
\* the number of frames taken, and equals it between iterations as long as
\* detection was never disabled.
C21_CounterCountsEnabledTakes ==
    /\ [](frame_counter <= Len(taken))
    /\ []((~ever_disabled /\ BetweenFrames) => frame_counter = Len(taken))
    /\ [][/\ (pc = "if_enabled" /\ pc' # pc /\ frame_to_process # None) =>
                frame_counter' = IF detection_enabled THEN frame_counter + 1
                                 ELSE frame_counter
          /\ ~(pc = "if_enabled" /\ frame_to_process # None) =>
                frame_counter' = frame_counter]_vars

C21_Witness ==
    /\ detection_enabled
    /\ ever_disabled
    /\ BetweenFrames
    /\ frame_counter >= 1
    /\ Len(taken) >= frame_counter + 2

\* C22: for every frame that goes to the detector, confidence_threshold has been
\* read for that frame before the invocation begins, and is not read only after
\* the detector has returned.
C22_ThresholdReadBeforeInvocation ==
    \A i \in 1..Len(invoked) :
        /\ i <= Len(applied)
        /\ applied[i].frame = invoked[i].frame

\* C23: right after a performance_update emission fps_counter and detection_count
\* are 0 and last_fps_time is the time of that emission; a processed frame that
\* finds less than one second elapsed emits nothing and leaves last_fps_time,
\* while the frame has added 1 to fps_counter and its object count to
\* detection_count.
C23_WindowResetOnEmission ==
    /\ [](LET p == PrevEmission(Len(performance_update) + 1)
          IN /\ last_fps_time = p.time
             /\ fps_counter = Len(detection_done) - p.ndone
             /\ detection_count = SumCounts(detection_done, p.ndone + 1,
                                            Len(detection_done)))
    /\ [][/\ performance_update' # performance_update =>
                /\ fps_counter' = 0
                /\ detection_count' = 0
                /\ last_fps_time' = now
                /\ performance_update'[Len(performance_update')].time = now
          /\ (pc = "emit" /\ pc' # pc) =>
                /\ fps_counter' = fps_counter + 1
                /\ detection_count' = detection_count + results.count
                /\ last_fps_time' = last_fps_time
          /\ (pc = "fps" /\ pc' # pc /\ now - last_fps_time < TicksPerSecond) =>
                /\ performance_update' = performance_update
                /\ last_fps_time' = last_fps_time
                /\ fps_counter' = fps_counter
                /\ detection_count' = detection_count]_vars

C23_Witness ==
    /\ Len(performance_update) = 1
    /\ pc = "msleep"
    /\ Len(detection_done) = performance_update[1].ndone + 1
    /\ fps_counter = 1
    /\ detection_count = 1
    /\ now > last_fps_time
    /\ now - last_fps_time < TicksPerSecond

\* C24 as stated: the worker sleeps only in iterations that found frame_queue
\* empty; an iteration that took a frame goes to the next queue check unslept.
C24_SleepsOnlyWhenEmpty == pc = "msleep" => frame_to_process = None

\* C24 as amended: the worker sleeps (msleep(5), line 80) at the end of every
\* loop iteration, whether the iteration found the queue empty, discarded its
\* frame or ran the detector on it: the loop test is reached only from the sleep.
C24_SleepsEveryIteration ==
    [][/\ (pc # "while" /\ pc' = "while") => pc = "msleep"
       /\ (pc = "if_enabled" /\ pc' # pc) => pc' \in {"if_skip", "msleep"}
       /\ (pc = "if_skip" /\ pc' # pc) => pc' \in {"model", "msleep"}
       /\ (pc = "fps" /\ pc' # pc) => pc' = "msleep"]_vars

C24_Witness ==
    /\ pc = "msleep"
    /\ Len(detection_done) >= 1
    /\ frame_to_process = detection_done[Len(detection_done)].frame
    /\ frame_queue # <<>>

\* C25: frame_queue is read and changed only by the thread that holds queue_lock,
\* add_frame and the worker are never inside their with blocks at the same time,
\* and neither sees the other's change in the middle of its own block.
C25_QueueOnlyUnderLock ==
    /\ [](/\ ~(pc = "pop" /\ gui = "add_frame")
          /\ pc = "pop" => queue_lock = "worker"
          /\ gui = "add_frame" => queue_lock = "gui")
    /\ [][/\ frame_queue' # frame_queue =>
                \/ (queue_lock = "worker" /\ pc = "pop" /\ pc' # pc)
                \/ (queue_lock = "gui" /\ gui = "add_frame" /\ gui' # gui)
          /\ (gui = "add_frame" /\ gui' = gui) => frame_queue' = frame_queue
          /\ (pc = "pop" /\ pc' = pc) => frame_queue' = frame_queue]_vars

C25_Witness ==
    /\ pc = "with_lock"
    /\ gui = "add_frame"
    /\ queue_lock = "gui"
    /\ Len(frame_queue) = QueueThreshold
    /\ Len(taken) >= 1

\* C26: no frame is retried: the worker takes each submitted frame at most once
\* and passes it to the detector at most once, a frame it has taken is no longer
\* in the queue, and this is so also after a detector invocation has failed.
C26_NoFrameTwice ==
    /\ \A i, j \in 1..Len(taken) : i # j => taken[i] # taken[j]
    /\ \A i, j \in 1..Len(invoked) : i # j => invoked[i].frame # invoked[j].frame
    /\ \A i \in 1..Len(taken) : \A j \in 1..Len(frame_queue) :
          taken[i] # frame_queue[j]
    /\ \A i \in 1..Len(invoked) : \E k \in 1..Len(taken) : invoked[i].frame = taken[k]

C26_Witness ==
    /\ pc = "raised"
    /\ Len(invoked) = 2
    /\ frame_queue # <<>>

\* C27: under every interleaving of add_frame calls and worker takes the queue
\* holds at most 4 frames, 4 is reached, and add_frame shortens the queue it finds
\* only when that queue is longer than 3.
C27_LengthBoundFourIsTight ==
    /\ [](Len(frame_queue) <= 4)
    /\ [][(gui = "add_frame" /\ gui' = "idle") =>
             Len(frame_queue') = IF Len(frame_queue) > 3 THEN Len(frame_queue)
                                 ELSE Len(frame_queue) + 1]_vars

C27_Witness ==
    /\ Len(frame_queue) = 4
    /\ Len(taken) >= 1
    /\ submitted = Len(taken) + 4
    /\ gui = "idle"

\* C28: after stop() has set active to False the worker takes at most one more
\* frame from the queue and begins at most one more detector invocation, and
\* none at all unless it was already past the loop test of that iteration.
C28_AtMostOneFrameAfterStop ==
    stop_called =>
        /\ Len(taken) <= at_stop.taken + 1
        /\ Len(invoked) <= at_stop.invoked + 1
        /\ at_stop.pc = "while" =>
              (Len(taken) = at_stop.taken /\ Len(invoked) = at_stop.invoked)

C28_Witness ==
    /\ pc = "finished"
    /\ Len(taken) = at_stop.taken + 1
    /\ Len(invoked) = at_stop.invoked + 1
    /\ frame_queue # <<>>

\* C29: an add_frame(f) that returns leaves f as the last element of the queue;
\* the length has grown by 1, or stayed as it was with the head, and nothing but
\* the head, evicted.
C29_SubmittedFrameIsKept ==
    [][(gui = "add_frame" /\ gui' = "idle") =>
          LET n == Len(frame_queue)
              m == Len(frame_queue')
          IN /\ m >= 1
             /\ frame_queue'[m] = submitted
             /\ m \in {n, n + 1}
             /\ m = n + 1 => SubSeq(frame_queue', 1, n) = frame_queue
             /\ m = n => SubSeq(frame_queue', 1, n - 1) = Tail(frame_queue)]_vars

C29_Witness ==
    /\ submitted = 5
    /\ gui = "idle"
    /\ frame_queue = <<3, 4, 5>>
    /\ taken = <<2>>

\* C30: whatever the sequence of select_video, toggle_pause, stop_video and
\* set_speed, update_frame submits a frame only while a video is open and
\* playback is not paused; right after stop_video paused is False and cap is
\* None, and until a file is selected again no frame is submitted, toggle_pause
\* calls included.
C30_NoSubmissionWhilePausedOrClosed ==
    /\ [](last_call = "stop_video" => (~paused /\ cap = "none"))
    /\ [](stopped_at # -1 => (submitted = stopped_at /\ gui # "add_frame"))
    /\ [][submitted' # submitted => (IsOpened(cap) /\ ~paused)]_vars

C30_Witness ==
    /\ rejected_ticks
    /\ stopped_at >= 1
    /\ toggles_since_stop = 2
    /\ last_call = "toggle_pause"
    /\ submitted = stopped_at
    /\ ~paused

\* C31: update_performance touches only widgets StatusPanel defines and completes
\* normally for every performance_update emission: no run of the slot raises, and
\* every delivered sample is shown.
C31_EverySampleConsumed ==
    /\ perf_slot_raised = 0
    /\ perf_shown = perf_delivered

====
